---- MODULE Spec2Model ----
(***************************************************************************)
(* The synthetic test-match generator (generate_test_matches.py): the      *)
(* TestDataGenerator class, its perturbation primitives, and main().       *)
(* Text is modelled as a sequence of one-character strings; a CSV record   *)
(* is a function from column names to text.  The random module is a        *)
(* deterministic stream whose state is rng; uuid4 draws on the operating   *)
(* system's entropy and is a fresh nondeterministic choice on every call.  *)
(***************************************************************************)
EXTENDS Integers, Sequences, FiniteSets, TLC

----------------------------------------------------------------------------
(* Bounds of the model *)

\* Each band's count is divided by Scale (rounding up) to get the number of
\* records the model generates for the band.
Scale == 125

\* Number of distinct values uuid4().hex[:12] can take in the model.
NumUuid == 2

\* Number of states of the random stream.
RngMod == 8

\* Rows the input file holds beyond the number of records generated.
MaxSpare == 1

\* Calls made on one generator instance by an arbitrary caller.
MaxCalls == 3

----------------------------------------------------------------------------
(* Configuration: generate_test_matches.py lines 14-24 *)

EXACT_MATCH_COUNT == 50
VERY_CLOSE_COUNT == 100
SOMEWHAT_CLOSE_COUNT == 100
NOT_CLOSE_COUNT == 250
TOTAL_RECORDS == 500

SOURCE_SYSTEMS ==
  << "sap_hmh", "sfdc_hmh", "sfdc_nwea", "112",
     "sis_pearson", "erp_oracle", "crm_edtech" >>

CeilDiv(a, b) == (a + b - 1) \div b

ExactN == CeilDiv(EXACT_MATCH_COUNT, Scale)
VeryCloseN == CeilDiv(VERY_CLOSE_COUNT, Scale)
SomewhatCloseN == CeilDiv(SOMEWHAT_CLOSE_COUNT, Scale)
NotCloseN == CeilDiv(NOT_CLOSE_COUNT, Scale)
TotalN == ExactN + VeryCloseN + SomewhatCloseN + NotCloseN

----------------------------------------------------------------------------
(* Python str operations used by the generator *)

LowerLetters == <<"a","b","c","d","e","f","g","h","i","j","k","l","m","n","o","p","q","r","s","t","u","v","w","x","y","z">>
UpperLetters == <<"A","B","C","D","E","F","G","H","I","J","K","L","M","N","O","P","Q","R","S","T","U","V","W","X","Y","Z">>
DigitChars == <<"0","1","2","3","4","5","6","7","8","9">>
HexChars == <<"0","1","2","3","4","5","6","7","8","9","a","b","c","d","e","f">>

Min(a, b) == IF a < b THEN a ELSE b
Max(a, b) == IF a > b THEN a ELSE b

\* Position of c in seq, 0 when absent.
IndexIn(c, seq) ==
  IF \E i \in 1..Len(seq) : seq[i] = c
  THEN CHOOSE i \in 1..Len(seq) : seq[i] = c /\ \A j \in 1..(i-1) : seq[j] # c
  ELSE 0

IsLower(c) == IndexIn(c, LowerLetters) > 0
IsUpper(c) == IndexIn(c, UpperLetters) > 0
IsCased(c) == IsLower(c) \/ IsUpper(c)
IsDigitChar(c) == IndexIn(c, DigitChars) > 0

ToLowerChar(c) == IF IsUpper(c) THEN LowerLetters[IndexIn(c, UpperLetters)] ELSE c
ToUpperChar(c) == IF IsLower(c) THEN UpperLetters[IndexIn(c, LowerLetters)] ELSE c

str_lower(s) == [i \in 1..Len(s) |-> ToLowerChar(s[i])]
str_upper(s) == [i \in 1..Len(s) |-> ToUpperChar(s[i])]

\* str.title(): a cased character is upper-cased when the character before it
\* is not cased, lower-cased otherwise.
str_title(s) ==
  [i \in 1..Len(s) |->
     IF i = 1 \/ ~IsCased(s[i-1]) THEN ToUpperChar(s[i]) ELSE ToLowerChar(s[i])]

\* str.isdigit(): non-empty and all digits.
str_isdigit(s) == Len(s) > 0 /\ \A i \in 1..Len(s) : IsDigitChar(s[i])

OccursAt(sub, s, i) ==
  /\ i + Len(sub) - 1 <= Len(s)
  /\ SubSeq(s, i, i + Len(sub) - 1) = sub

\* sub in s
str_in(sub, s) == \E i \in 1..(Len(s) + 1) : OccursAt(sub, s, i)

\* s.replace(old, new) for a non-empty old: every non-overlapping occurrence,
\* leftmost first.
RECURSIVE ReplaceFrom(_, _, _, _)
ReplaceFrom(s, i, old, new) ==
  IF i > Len(s) THEN << >>
  ELSE IF OccursAt(old, s, i) THEN new \o ReplaceFrom(s, i + Len(old), old, new)
  ELSE << s[i] >> \o ReplaceFrom(s, i + 1, old, new)

str_replace(s, old, new) == ReplaceFrom(s, 1, old, new)

\* s.split('-')
RECURSIVE SplitFrom(_, _, _)
SplitFrom(s, i, cur) ==
  IF i > Len(s) THEN << cur >>
  ELSE IF s[i] = "-" THEN << cur >> \o SplitFrom(s, i + 1, << >>)
  ELSE SplitFrom(s, i + 1, Append(cur, s[i]))

str_split_hyphen(s) == SplitFrom(s, 1, << >>)

\* int(s) for a string of digits.
RECURSIVE int_of(_)
int_of(s) ==
  IF Len(s) = 0 THEN 0
  ELSE 10 * int_of(SubSeq(s, 1, Len(s) - 1)) + (IndexIn(s[Len(s)], DigitChars) - 1)

\* str(n) for n >= 0.
RECURSIVE str_of(_)
str_of(n) ==
  IF n < 10 THEN << DigitChars[n + 1] >>
  ELSE Append(str_of(n \div 10), DigitChars[(n % 10) + 1])

\* Length of the longest prefix of s made of digits: group 1 of ^(\d+)(.*)$
RECURSIVE LeadingDigits(_)
LeadingDigits(s) ==
  IF Len(s) = 0 \/ ~IsDigitChar(s[1]) THEN 0
  ELSE 1 + LeadingDigits(Tail(s))

----------------------------------------------------------------------------
(* Variation mappings: TestDataGenerator.__init__, in dictionary order *)

abbreviations ==
  <<
     [original |-> <<"S","t","r","e","e","t">>,
      alternatives |-> << <<"S","t">>,
                          <<"S","T">> >>],
     [original |-> <<"R","o","a","d">>,
      alternatives |-> << <<"R","d">>,
                          <<"R","D">> >>],
     [original |-> <<"D","r","i","v","e">>,
      alternatives |-> << <<"D","r">>,
                          <<"D","R">> >>],
     [original |-> <<"A","v","e","n","u","e">>,
      alternatives |-> << <<"A","v","e">>,
                          <<"A","V","E">> >>],
     [original |-> <<"B","o","u","l","e","v","a","r","d">>,
      alternatives |-> << <<"B","l","v","d">>,
                          <<"B","L","V","D">> >>],
     [original |-> <<"N","o","r","t","h">>,
      alternatives |-> << <<"N">>,
                          <<"N","O","R","T","H">> >>],
     [original |-> <<"S","o","u","t","h">>,
      alternatives |-> << <<"S">>,
                          <<"S","O","U","T","H">> >>],
     [original |-> <<"E","a","s","t">>,
      alternatives |-> << <<"E">>,
                          <<"E","A","S","T">> >>],
     [original |-> <<"W","e","s","t">>,
      alternatives |-> << <<"W">>,
                          <<"W","E","S","T">> >>],
     [original |-> <<"N","o","r","t","h","e","a","s","t">>,
      alternatives |-> << <<"N","E">>,
                          <<"N","O","R","T","H","E","A","S","T">> >>],
     [original |-> <<"S","o","u","t","h","e","a","s","t">>,
      alternatives |-> << <<"S","E">>,
                          <<"S","O","U","T","H","E","A","S","T">> >>],
     [original |-> <<"N","o","r","t","h","w","e","s","t">>,
      alternatives |-> << <<"N","W">>,
                          <<"N","O","R","T","H","W","E","S","T">> >>],
     [original |-> <<"S","o","u","t","h","w","e","s","t">>,
      alternatives |-> << <<"S","W">>,
                          <<"S","O","U","T","H","W","E","S","T">> >>],
     [original |-> <<"E","l","e","m","e","n","t","a","r","y"," ","S","c","h","o","o","l">>,
      alternatives |-> << <<"E","l","e","m"," ","S","c","h","o","o","l">>,
                          <<"E","l","e","m","e","n","t","a","r","y"," ","S","c","h">>,
                          <<"E","l","e","m"," ","S","c","h">> >>],
     [original |-> <<"H","i","g","h"," ","S","c","h","o","o","l">>,
      alternatives |-> << <<"H","S">>,
                          <<"H","i","g","h"," ","S","c","h">>,
                          <<"S","e","c","o","n","d","a","r","y"," ","S","c","h","o","o","l">> >>],
     [original |-> <<"L","e","a","r","n","i","n","g"," ","C","e","n","t","e","r">>,
      alternatives |-> << <<"L","e","a","r","n","i","n","g"," ","C","e","n","t","r","e">>,
                          <<"E","d","u","c","a","t","i","o","n","a","l"," ","C","e","n","t","e","r">>,
                          <<"E","d","u","c","a","t","i","o","n"," ","C","e","n","t","e","r">> >>],
     [original |-> <<"C","o","m","m","u","n","i","t","y"," ","C","o","l","l","e","g","e">>,
      alternatives |-> << <<"C","o","m","m"," ","C","o","l","l","e","g","e">>,
                          <<"C","C">>,
                          <<"C","o","m","m","u","n","i","t","y"," ","C","o","l","l">> >>],
     [original |-> <<"S","c","h","o","o","l"," ","D","i","s","t","r","i","c","t">>,
      alternatives |-> << <<"S","c","h","o","o","l"," ","D","i","s","t">>,
                          <<"S","c","h"," ","D","i","s","t">>,
                          <<"S","D">> >>]
  >>

common_typos ==
  <<
     [original |-> <<"A","c","a","d","e","m","y">>,
      alternatives |-> << <<"A","c","a","d","a","m","y">>,
                          <<"A","c","a","d","m","e","y">> >>],
     [original |-> <<"E","l","e","m","e","n","t","a","r","y">>,
      alternatives |-> << <<"E","l","e","m","e","n","t","r","y">>,
                          <<"E","l","m","e","n","t","a","r","y">> >>],
     [original |-> <<"S","e","c","o","n","d","a","r","y">>,
      alternatives |-> << <<"S","e","c","o","n","d","r","y">>,
                          <<"S","e","c","a","n","d","a","r","y">> >>],
     [original |-> <<"C","o","m","m","u","n","i","t","y">>,
      alternatives |-> << <<"C","o","m","u","n","i","t","y">>,
                          <<"C","o","m","m","m","u","n","i","t","y">> >>],
     [original |-> <<"C","h","r","i","s","t","i","a","n">>,
      alternatives |-> << <<"C","r","i","s","t","i","a","n">>,
                          <<"C","h","i","r","s","t","i","a","n">> >>],
     [original |-> <<"L","e","a","r","n","i","n","g">>,
      alternatives |-> << <<"L","e","a","r","i","n","g">>,
                          <<"L","e","r","n","i","n","g">> >>],
     [original |-> <<"D","i","s","t","r","i","c","t">>,
      alternatives |-> << <<"D","i","s","t","i","c","t">>,
                          <<"D","i","s","t","r","c","t">> >>],
     [original |-> <<"C","o","l","l","e","g","e">>,
      alternatives |-> << <<"C","o","l","l","g","e">>,
                          <<"C","o","l","e","g","e","e">> >>]
  >>

street_types ==
  << <<"S","t">>, <<"A","v","e">>, <<"R","d">>, <<"D","r">>, <<"B","l","v","d">>, <<"C","t">>, <<"L","n">>, <<"W","a","y">> >>

TEST_PREFIX == <<"T","E","S","T","_">>

APOSTROPHE == <<"'">>

HYPHEN == <<"-">>

NEWLINE == <<"\n">>
----------------------------------------------------------------------------
(* The random module: a deterministic stream.  Every function takes the    *)
(* stream state g and returns its value v with the state after the draw.   *)

NextRng(g) == (5 * g + 3) % RngMod

\* random.random() < tenths / 10
random_lt(tenths, g) == [v |-> 10 * g < tenths * RngMod, g |-> NextRng(g)]

\* random.randint(a, b)
random_randint(a, b, g) == [v |-> a + (g % (b - a + 1)), g |-> NextRng(g)]

\* random.choice(seq)
random_choice(seq, g) == [v |-> seq[(g % Len(seq)) + 1], g |-> NextRng(g)]

\* random.sample(population, k), the pool algorithm CPython uses for a small
\* population: pick pool[j], then move the last unpicked element into slot j.
RECURSIVE SampleLoop(_, _, _, _, _)
SampleLoop(pool, n, k, i, g) ==
  IF i = k THEN [v |-> << >>, g |-> g]
  ELSE LET j == g % (n - i)
           rest == SampleLoop([pool EXCEPT ![j + 1] = pool[n - i]], n, k, i + 1, NextRng(g))
       IN  [v |-> << pool[j + 1] >> \o rest.v, g |-> rest.g]

random_sample(population, k, g) == SampleLoop(population, Len(population), k, 0, g)

\* random.shuffle(x): for i from len(x)-1 down to 1, swap x[i] with x[j],
\* j drawn from 0..i (indices are 0-based in the code, 1-based here).
RECURSIVE ShuffleLoop(_, _, _)
ShuffleLoop(x, i, g) ==
  IF i < 1 THEN [v |-> x, g |-> g]
  ELSE LET j == g % (i + 1)
       IN  ShuffleLoop([x EXCEPT ![i + 1] = x[j + 1], ![j + 1] = x[i + 1]],
                       i - 1, NextRng(g))

\* Sampling with replacement instead of a shuffle.
random_shuffle_with_replacement(x, g) ==
  [v |-> [k \in 1..Len(x) |-> x[(g % Len(x)) + 1]], g |-> NextRng(g)]

random_shuffle(x, g) == ShuffleLoop(x, Len(x) - 1, g)

----------------------------------------------------------------------------
(* Perturbation primitives *)

apply_case_variations(text, g) ==
  random_choice(<< str_lower(text), str_upper(text), str_title(text), text >>, g)

RECURSIVE AbbreviationLoop(_, _, _)
AbbreviationLoop(result, sampled, g) ==
  IF sampled = << >> THEN [v |-> result, g |-> g]
  ELSE IF str_in(Head(sampled).original, result)
  THEN LET c == random_choice(Head(sampled).alternatives, g)
       IN  AbbreviationLoop(str_replace(result, Head(sampled).original, c.v),
                            Tail(sampled), c.g)
  ELSE AbbreviationLoop(result, Tail(sampled), g)

apply_abbreviations(text, aggressive, g) ==
  LET r == IF aggressive THEN random_randint(2, 4, g) ELSE random_randint(1, 2, g)
      sample_size == Min(Len(abbreviations), r.v)
      s == random_sample(abbreviations, sample_size, r.g)
  IN  AbbreviationLoop(text, s.v, s.g)

available_typos(text) ==
  SelectSeq(common_typos, LAMBDA e : str_in(e.original, text))

RECURSIVE TypoLoop(_, _, _)
TypoLoop(result, sampled, g) ==
  IF sampled = << >> THEN [v |-> result, g |-> g]
  ELSE LET c == random_choice(Head(sampled).alternatives, g)
       IN  TypoLoop(str_replace(result, Head(sampled).original, c.v),
                    Tail(sampled), c.g)

\* The typos are sampled from the whole mapping, not from the keys present.
apply_typos_any_key(text, num_typos, g) ==
  IF num_typos > 0
  THEN LET s == random_sample(common_typos, Min(num_typos, Len(common_typos)), g)
       IN  TypoLoop(text, s.v, s.g)
  ELSE [v |-> text, g |-> g]

apply_typos(text, num_typos, g) ==
  LET avail == available_typos(text)
  IN  IF Len(avail) > 0 /\ num_typos > 0
      THEN LET s == random_sample(avail, Min(num_typos, Len(avail)), g)
           IN  TypoLoop(text, s.v, s.g)
      ELSE [v |-> text, g |-> g]

address_deltas == << -3, -2, -1, 1, 2, 3 >>

\* First position at or after i that holds a line break, Len(s) + 1 if none
RECURSIVE LineEnd(_, _)
LineEnd(s, i) ==
  IF i > Len(s) THEN i
  ELSE IF s[i] = NEWLINE[1] THEN i
  ELSE LineEnd(s, i + 1)

\* re.match(r'^(\d+)(.*)$', address): the leading digits, then the rest of
\* the first line.  '.' matches no line break and '$' matches at the end of the
\* string or just before a line break that ends it, so the match fails when
\* text follows a line break, and group 2 leaves out a final line break.
re_match(address) ==
  [found |-> /\ LeadingDigits(address) > 0
             /\ LineEnd(address, LeadingDigits(address) + 1) >= Len(address),
   group1 |-> SubSeq(address, 1, LeadingDigits(address)),
   group2 |-> SubSeq(address, LeadingDigits(address) + 1,
                     LineEnd(address, LeadingDigits(address) + 1) - 1)]

\* A missing house number counts as 0.
vary_address_number_from_zero(address, g) ==
  [v |-> str_of(Max(1, int_of(SubSeq(address, 1, LeadingDigits(address)))
                       + random_choice(address_deltas, g).v))
         \o SubSeq(address, LeadingDigits(address) + 1, Len(address)),
   g |-> NextRng(g)]

vary_address_number(address, g) ==
  IF re_match(address).found
  THEN [v |-> str_of(Max(1, int_of(re_match(address).group1)
                            + random_choice(address_deltas, g).v))
              \o re_match(address).group2,
        g |-> NextRng(g)]
  ELSE [v |-> address, g |-> g]

\* The last-two-digits branch cuts three characters off: postal_code[:-3].
vary_postal_code_slice_three(postal_code, g) ==
  IF str_in(HYPHEN, postal_code)
  THEN LET parts == str_split_hyphen(postal_code)
       IN  IF Len(parts[1]) = 5 /\ str_isdigit(parts[1])
           THEN LET r == random_lt(3, g)
                IN  IF r.v THEN [v |-> parts[1], g |-> r.g]
                    ELSE IF Len(parts[2]) = 4 /\ str_isdigit(parts[2])
                    THEN LET new_last == random_randint(0, 9, r.g)
                         IN  [v |-> parts[1] \o HYPHEN \o SubSeq(parts[2], 1, 3)
                                      \o str_of(new_last.v),
                              g |-> new_last.g]
                    ELSE [v |-> postal_code, g |-> r.g]
           ELSE [v |-> postal_code, g |-> g]
  ELSE IF Len(postal_code) = 5 /\ str_isdigit(postal_code)
  THEN LET r == random_lt(5, g)
       IN  IF r.v
           THEN LET new_last == random_randint(0, 9, r.g)
                IN  [v |-> SubSeq(postal_code, 1, 4) \o str_of(new_last.v),
                     g |-> new_last.g]
           ELSE LET d1 == random_randint(0, 9, r.g)
                    d2 == random_randint(0, 9, d1.g)
                IN  [v |-> SubSeq(postal_code, 1, 2) \o str_of(d1.v) \o str_of(d2.v),
                     g |-> d2.g]
  ELSE [v |-> postal_code, g |-> g]

\* The +4 branch cuts two characters off the suffix: parts[1][:-2].
vary_postal_code_short_suffix(postal_code, g) ==
  IF str_in(HYPHEN, postal_code)
  THEN LET parts == str_split_hyphen(postal_code)
       IN  IF Len(parts[1]) = 5 /\ str_isdigit(parts[1])
           THEN LET r == random_lt(3, g)
                IN  IF r.v THEN [v |-> parts[1], g |-> r.g]
                    ELSE IF Len(parts[2]) = 4 /\ str_isdigit(parts[2])
                    THEN LET new_last == random_randint(0, 9, r.g)
                         IN  [v |-> parts[1] \o HYPHEN \o SubSeq(parts[2], 1, 2)
                                      \o str_of(new_last.v),
                              g |-> new_last.g]
                    ELSE [v |-> postal_code, g |-> r.g]
           ELSE [v |-> postal_code, g |-> g]
  ELSE IF Len(postal_code) = 5 /\ str_isdigit(postal_code)
  THEN LET r == random_lt(5, g)
       IN  IF r.v
           THEN LET new_last == random_randint(0, 9, r.g)
                IN  [v |-> SubSeq(postal_code, 1, 4) \o str_of(new_last.v),
                     g |-> new_last.g]
           ELSE LET d1 == random_randint(0, 9, r.g)
                    d2 == random_randint(0, 9, d1.g)
                IN  [v |-> SubSeq(postal_code, 1, 3) \o str_of(d1.v) \o str_of(d2.v),
                     g |-> d2.g]
  ELSE [v |-> postal_code, g |-> g]

\* The street-type substitution of create_not_close_match: the first listed
\* type found in the address is replaced by another member of the list.
vary_postal_code(postal_code, g) ==
  IF str_in(HYPHEN, postal_code)
  THEN LET parts == str_split_hyphen(postal_code)
       IN  IF Len(parts[1]) = 5 /\ str_isdigit(parts[1])
           THEN LET r == random_lt(3, g)
                IN  IF r.v THEN [v |-> parts[1], g |-> r.g]
                    ELSE IF Len(parts[2]) = 4 /\ str_isdigit(parts[2])
                    THEN LET new_last == random_randint(0, 9, r.g)
                         IN  [v |-> parts[1] \o HYPHEN \o SubSeq(parts[2], 1, 3)
                                      \o str_of(new_last.v),
                              g |-> new_last.g]
                    ELSE [v |-> postal_code, g |-> r.g]
           ELSE [v |-> postal_code, g |-> g]
  ELSE IF Len(postal_code) = 5 /\ str_isdigit(postal_code)
  THEN LET r == random_lt(5, g)
       IN  IF r.v
           THEN LET new_last == random_randint(0, 9, r.g)
                IN  [v |-> SubSeq(postal_code, 1, 4) \o str_of(new_last.v),
                     g |-> new_last.g]
           ELSE LET d1 == random_randint(0, 9, r.g)
                    d2 == random_randint(0, 9, d1.g)
                IN  [v |-> SubSeq(postal_code, 1, 3) \o str_of(d1.v) \o str_of(d2.v),
                     g |-> d2.g]
  ELSE [v |-> postal_code, g |-> g]

\* The street-type substitution of create_not_close_match: the first listed
\* type found in the address is replaced by another member of the list.
\* The new type is drawn from the whole list, the type found included.
RECURSIVE StreetTypeLoopAny(_, _, _)
StreetTypeLoopAny(address, i, g) ==
  IF i > Len(street_types) THEN [v |-> address, g |-> g]
  ELSE IF str_in(street_types[i], address)
  THEN LET new_type == random_choice(street_types, g)
       IN  [v |-> str_replace(address, street_types[i], new_type.v), g |-> new_type.g]
  ELSE StreetTypeLoopAny(address, i + 1, g)

RECURSIVE StreetTypeLoop(_, _, _)
StreetTypeLoop(address, i, g) ==
  IF i > Len(street_types) THEN [v |-> address, g |-> g]
  ELSE IF str_in(street_types[i], address)
  THEN LET new_type == random_choice(
                         SelectSeq(street_types, LAMBDA x : x # street_types[i]), g)
       IN  [v |-> str_replace(address, street_types[i], new_type.v), g |-> new_type.g]
  ELSE StreetTypeLoop(address, i + 1, g)

change_street_type(address, g) == StreetTypeLoop(address, 1, g)
\* Rows an input file is made of.  SOURCE_SYSTEM is kept as a name; every
\* other column is text.  (STATE is a reserved word, so a record is written
\* as a function of the column names.)
Catalogue ==
  <<
     ("SOURCE_PKEY" :> <<"V","1">> @@
      "NAME" :> <<"O","'","N","e","i","l"," ","A","c","a","d","e","m","y">> @@
      "SOURCE_SYSTEM" :> "sap_hmh" @@
      "ADDRESS_LINE_1" :> <<"1","2"," ","N","o","r","t","h"," ","M","a","i","n"," ","S","t","r","e","e","t">> @@
      "ADDRESS_LINE_2" :> <<>> @@
      "CITY" :> <<"T","r","o","y">> @@
      "STATE" :> <<"N","Y">> @@
      "POSTAL_CODE" :> <<"1","2","1","8","0">> @@
      "COUNTRY" :> <<"U","S">>),
     ("SOURCE_PKEY" :> <<"V","2">> @@
      "NAME" :> <<"E","a","s","t"," ","H","i","g","h"," ","S","c","h","o","o","l">> @@
      "SOURCE_SYSTEM" :> "legacy" @@
      "ADDRESS_LINE_1" :> <<"1"," ","O","a","k"," ","D","r","i","v","e">> @@
      "ADDRESS_LINE_2" :> <<"S","u","i","t","e"," ","2">> @@
      "CITY" :> <<"R","e","n","o">> @@
      "STATE" :> <<"N","V">> @@
      "POSTAL_CODE" :> <<"8","9","5","0","1","-","1","2","3","4">> @@
      "COUNTRY" :> <<"U","S">>),
     ("SOURCE_PKEY" :> <<"V","3">> @@
      "NAME" :> <<"C","o","m","m","u","n","i","t","y"," ","C","o","l","l","e","g","e">> @@
      "SOURCE_SYSTEM" :> "sfdc_hmh" @@
      "ADDRESS_LINE_1" :> <<"L","a","k","e"," ","R","o","a","d">> @@
      "ADDRESS_LINE_2" :> <<>> @@
      "CITY" :> <<"E","r","i","e">> @@
      "STATE" :> <<"P","A">> @@
      "POSTAL_CODE" :> <<"K","1","A"," ","0","B","1">> @@
      "COUNTRY" :> <<"C","A">>),
     ("SOURCE_PKEY" :> <<"V","4">> @@
      "NAME" :> <<"E","l","e","m","e","n","t","a","r","y"," ","S","c","h","o","o","l"," ","D","i","s","t","r","i","c","t">> @@
      "SOURCE_SYSTEM" :> "112" @@
      "ADDRESS_LINE_1" :> <<"3","0","0"," ","S","t","r","e","e","t"," ","R","d">> @@
      "ADDRESS_LINE_2" :> <<>> @@
      "CITY" :> <<"A","v","o","n">> @@
      "STATE" :> <<"O","H">> @@
      "POSTAL_CODE" :> <<"4","4","0","1","1">> @@
      "COUNTRY" :> <<"U","S">>)
  >>
----------------------------------------------------------------------------
(* Records *)

\* fieldnames of save_test_data, in output order
fieldnames ==
  << "SOURCE_PKEY", "NAME", "SOURCE_SYSTEM", "ADDRESS_LINE_1", "ADDRESS_LINE_2",
     "CITY", "STATE", "POSTAL_CODE", "COUNTRY" >>

AllColumns == { fieldnames[i] : i \in 1..Len(fieldnames) }

\* The columns the create_*_match functions read from a canonical record.
ReadColumns ==
  << "NAME", "ADDRESS_LINE_1", "ADDRESS_LINE_2", "CITY", "STATE", "POSTAL_CODE",
     "COUNTRY" >>

\* Values uuid4().hex[:12] can take, as integers.
Uuid4Values == { 10 + k : k \in 0..(NumUuid - 1) }

\* n as `width` lower-case hexadecimal digits
RECURSIVE hex_of(_, _)
hex_of(n, width) ==
  IF width = 0 THEN << >>
  ELSE Append(hex_of(n \div 16, width - 1), HexChars[(n % 16) + 1])

\* f"TEST_{uuid.uuid4().hex[:12].upper()}", u being the value drawn by uuid4
generate_source_pkey(u) == TEST_PREFIX \o str_upper(hex_of(u, 12))

DerivedRecord(pkey, name, system, address, postal_code, record) ==
  "SOURCE_PKEY" :> pkey @@
  "NAME" :> name @@
  "SOURCE_SYSTEM" :> system @@
  "ADDRESS_LINE_1" :> address @@
  "ADDRESS_LINE_2" :> record["ADDRESS_LINE_2"] @@
  "CITY" :> record["CITY"] @@
  "STATE" :> record["STATE"] @@
  "POSTAL_CODE" :> postal_code @@
  "COUNTRY" :> record["COUNTRY"]

\* The create_*_match functions: record is the canonical record, u the value
\* uuid4 draws, g the state of the random stream.  The result is the derived
\* record v and the stream state g after the call.
\*
\* The local variables of a call (name, address, postal_code) are carried,
\* with the stream state g and the outcome hit of the last random.random() < p
\* test, from one statement to the next.
Locals(record, g) ==
  [name |-> record["NAME"],
   address |-> record["ADDRESS_LINE_1"],
   postal_code |-> record["POSTAL_CODE"],
   g |-> g,
   hit |-> FALSE]

\* if random.random() < tenths / 10:
Chance(st, tenths) ==
  [st EXCEPT !.hit = random_lt(tenths, st.g).v, !.g = NextRng(st.g)]

\* name = <r>, address = <r>, postal_code = <r>, r being a value with the
\* stream state after it was computed
SetName(st, r) == [st EXCEPT !.name = r.v, !.g = r.g]
SetAddress(st, r) == [st EXCEPT !.address = r.v, !.g = r.g]
SetPostalCode(st, r) == [st EXCEPT !.postal_code = r.v, !.g = r.g]

\* name = self.apply_case_variations(name), when the test before it hit
CaseVariationStep(st) ==
  IF st.hit THEN SetName(st, apply_case_variations(st.name, st.g)) ELSE st

\* name = name.replace("'", ""), when the test before it hit
ApostropheStep(st) ==
  IF st.hit THEN [st EXCEPT !.name = str_replace(st.name, APOSTROPHE, << >>)] ELSE st

\* name = self.apply_abbreviations(name, aggressive=...)
AbbreviateName(st, aggressive) ==
  SetName(st, apply_abbreviations(st.name, aggressive, st.g))

\* address = self.apply_abbreviations(address, aggressive=...)
AbbreviateAddress(st, aggressive) ==
  SetAddress(st, apply_abbreviations(st.address, aggressive, st.g))

\* address = self.apply_abbreviations(address, aggressive=False), when the
\* test before it hit
AbbreviateAddressStep(st) == IF st.hit THEN AbbreviateAddress(st, FALSE) ELSE st

\* name = self.apply_typos(name, 1), when the test before it hit
TypoStep(st) == IF st.hit THEN SetName(st, apply_typos(st.name, 1, st.g)) ELSE st

\* name = self.apply_typos(name, random.randint(1, 2))
TypoName(st) ==
  SetName(st, apply_typos(st.name, random_randint(1, 2, st.g).v, NextRng(st.g)))

\* address = self.vary_address_number(address)
VaryAddress(st) == SetAddress(st, vary_address_number(st.address, st.g))

\* postal_code = self.vary_postal_code(postal_code)
VaryPostalCode(st) == SetPostalCode(st, vary_postal_code(st.postal_code, st.g))

VaryAddressStep(st) == IF st.hit THEN VaryAddress(st) ELSE st
VaryPostalCodeStep(st) == IF st.hit THEN VaryPostalCode(st) ELSE st

\* the street-type substitution, when the test before it hit
StreetTypeStep(st) ==
  IF st.hit THEN SetAddress(st, change_street_type(st.address, st.g)) ELSE st

\* the returned dict: the identifier is generated, then the source system drawn
Built(record, u, st, system) ==
  [v |-> DerivedRecord(generate_source_pkey(u), st.name, system.v, st.address,
                       st.postal_code, record),
   g |-> system.g]

\* The source system of the canonical record is kept.
ReturnDictSameSystem(record, u, st) ==
  Built(record, u, st, [v |-> record["SOURCE_SYSTEM"], g |-> NextRng(st.g)])

ReturnDict(record, u, st) == Built(record, u, st, random_choice(SOURCE_SYSTEMS, st.g))

\* The name is upper-cased on the way.
create_exact_match_upper(record, u, g) ==
  ReturnDict(record, u, [Locals(record, g) EXCEPT !.name = str_upper(record["NAME"])])

create_exact_match(record, u, g) == ReturnDict(record, u, Locals(record, g))

\* The postal code is varied as well.
create_very_close_match_postal(record, u, g) ==
  LET cased == CaseVariationStep(Chance(Locals(record, g), 7))
      abbreviated == AbbreviateAddressStep(Chance(cased, 5))
      stripped == ApostropheStep(Chance(abbreviated, 3))
      postal == VaryPostalCode(stripped)
  IN  ReturnDict(record, u, postal)

create_very_close_match(record, u, g) ==
  LET cased == CaseVariationStep(Chance(Locals(record, g), 7))
      abbreviated == AbbreviateAddressStep(Chance(cased, 5))
      stripped == ApostropheStep(Chance(abbreviated, 3))
  IN  ReturnDict(record, u, stripped)

create_somewhat_close_match(record, u, g) ==
  LET name0 == AbbreviateName(Locals(record, g), TRUE)
      address0 == AbbreviateAddress(name0, TRUE)
      typos == TypoStep(Chance(address0, 4))
      number == VaryAddressStep(Chance(typos, 3))
      postal == VaryPostalCodeStep(Chance(number, 3))
  IN  ReturnDict(record, u, postal)

\* The typos go into the source name, which is abbreviated afterwards.
create_not_close_match_typos_first(record, u, g) ==
  LET name0 == TypoName(Locals(record, g))
      name == AbbreviateName(name0, TRUE)
      address0 == AbbreviateAddress(name, TRUE)
      address1 == VaryAddress(address0)
      postal == VaryPostalCode(address1)
      street == StreetTypeStep(Chance(postal, 3))
  IN  ReturnDict(record, u, street)

create_not_close_match(record, u, g) ==
  LET name0 == AbbreviateName(Locals(record, g), TRUE)
      name == TypoName(name0)
      address0 == AbbreviateAddress(name, TRUE)
      address1 == VaryAddress(address0)
      postal == VaryPostalCode(address1)
      street == StreetTypeStep(Chance(postal, 3))
  IN  ReturnDict(record, u, street)

----------------------------------------------------------------------------
(* Input files *)

Without(seq, c) == SelectSeq(seq, LAMBDA x : x # c)

\* The header has every column, or lacks one of the columns that are read.
Headers == { fieldnames } \cup { Without(fieldnames, ReadColumns[i]) : i \in 1..Len(ReadColumns) }

CsvRow(header, k) ==
  [j \in 1..Len(header) |-> Catalogue[((k - 1) % Len(Catalogue)) + 1][header[j]]]

\* An input file is given by its header and its number of rows; row k holds
\* the values of the k-th catalogue row (cyclically) for the header's columns.
CsvFile(header, n) == [header |-> header, nrows |-> n]

CsvRows(file) == [k \in 1..file.nrows |-> CsvRow(file.header, k)]

InputFiles == { CsvFile(h, n) : h \in Headers, n \in 0..(TotalN + MaxSpare) }

\* list(csv.DictReader(f)): one dict per row, keyed by the header's columns
DictReader(file) ==
  [k \in 1..Len(CsvRows(file)) |->
     [c \in { file.header[j] : j \in 1..Len(file.header) } |->
        CsvRows(file)[k][IndexIn(c, file.header)]]]

\* csv.DictWriter(f, fieldnames).writerows(data): one row per dict, the values
\* in fieldnames order
DictWriterRows(data) ==
  [k \in 1..Len(data) |-> [j \in 1..Len(fieldnames) |-> data[k][fieldnames[j]]]]

NoFile == [exists |-> FALSE, rows |-> << >>]

----------------------------------------------------------------------------
(* State *)

VARIABLES
  valid_csv,         \* the input file valid.csv
  seed42,            \* the stream state random.seed(42) installs
  rng,               \* state of the random module's stream
  valid_data,        \* self.valid_data
  output_data,       \* self.output_data
  source_records,    \* generate_test_data: the shuffled copy, as references
                     \* (indices) to the records of valid_data
  record_index,      \* generate_test_data: record_index
  loop_i,            \* generate_test_data: i of the running for loop
  pc,                \* position inside generate_test_data, "idle" outside
  main_pc,           \* position of main(), "api" for any other caller
  err,               \* the exception last raised, "none" if none
  test_matches_csv,  \* the output file test_matches.csv
  run,               \* "first" or "second" execution of the script
  prev_csv,          \* copy of the output file the first execution left
  reads,             \* the create_*_match calls of this generate_test_data
                     \* call: the position read, the function called and
                     \* the state of the random stream at the call
  issued,            \* identifiers generate_source_pkey returned in this run
  called,            \* functions entered in this run
  calls,             \* number of method calls made on the instance
  last_call,         \* the perturbation primitive called on its own last:
                     \* its name, arguments and the stream state at the call
  last_return,       \* the text that call returned
  TEST_MATCHES,      \* dashboard: the table TEST_MATCHES, by SOURCE_PKEY
  CUSTOMER_MATCH_RESULTS,  \* dashboard: the rows of CUSTOMER_MATCH_RESULTS
  thresholds,        \* dashboard: st.session_state.thresholds, in thousandths
  similarities,      \* dashboard: the rows compute_similarities returned last
  valid_embedding_column,  \* dashboard: whether VALID_CUSTOMERS has the column
                     \* CUSTOMER_FULL_DETAIL_EMBEDDING besides
                     \* CUSTOMER_FULL_DETAIL_EMBEDDING_VECTOR
  last_event         \* dashboard: the function or page handler that ran last

vars ==
  << valid_csv, seed42, rng, valid_data, output_data, source_records,
     record_index, loop_i, pc, main_pc, err, test_matches_csv, run, prev_csv,
     reads, issued, called, calls, last_call, last_return,
     TEST_MATCHES, CUSTOMER_MATCH_RESULTS, thresholds, similarities,
     valid_embedding_column, last_event >>

\* The variables of the dashboard, which the generator neither reads nor writes
dashboard_vars ==
  << TEST_MATCHES, CUSTOMER_MATCH_RESULTS, thresholds, similarities,
     valid_embedding_column, last_event >>

\* DEFAULT_THRESHOLDS of the dashboard, in thousandths
DEFAULT_THRESHOLDS == [exact |-> 995, very_close |-> 980, somewhat_close |-> 920]

\* No dashboard session: empty tables and the default thresholds
NoDashboard ==
  /\ TEST_MATCHES = << >>
  /\ CUSTOMER_MATCH_RESULTS = { }
  /\ thresholds = DEFAULT_THRESHOLDS
  /\ similarities = { }
  /\ valid_embedding_column = FALSE
  /\ last_event = "none"

\* No primitive has been called on its own
NoCall ==
  [fn |-> "none", text |-> << >>, aggressive |-> FALSE, num_typos |-> 0, g |-> 0]

\* TestDataGenerator.__init__ and the state of a process that starts
Fresh ==
  /\ valid_data = << >>
  /\ output_data = << >>
  /\ source_records = << >>
  /\ record_index = 0
  /\ loop_i = 0
  /\ pc = "idle"
  /\ err = "none"
  /\ reads = << >>
  /\ issued = << >>
  /\ called = { }
  /\ calls = 0
  /\ last_call = NoCall
  /\ last_return = << >>

Init ==
  /\ valid_csv \in InputFiles
  /\ seed42 \in 0..(RngMod - 1)
  /\ rng \in 0..(RngMod - 1)
  /\ Fresh
  /\ NoDashboard
  /\ main_pc = "seed"
  /\ test_matches_csv = NoFile
  /\ run = "first"
  /\ prev_csv = NoFile

\* A caller other than main(): the stream is whatever it is, and any method
\* may be called at any time.
InitApi ==
  /\ valid_csv \in InputFiles
  /\ seed42 = 0
  /\ rng \in 0..(RngMod - 1)
  /\ Fresh
  /\ NoDashboard
  /\ main_pc = "api"
  /\ test_matches_csv = NoFile
  /\ run = "first"
  /\ prev_csv = NoFile

----------------------------------------------------------------------------
(* Control *)

\* The caller is about to make the call main() makes at position step.
CallerAt(step) ==
  /\ pc = "idle"
  /\ \/ main_pc = step
     \/ main_pc = "api" /\ calls < MaxCalls

\* Where the caller is after the call returns / raises.
Returned(next) == IF main_pc = "api" THEN "api" ELSE next
\* The exception is swallowed and main() goes on to save.
RaisedSwallowed == IF main_pc = "api" THEN "api" ELSE "save"

Raised == IF main_pc = "api" THEN "api" ELSE "error"

----------------------------------------------------------------------------
(* Actions *)

\* main: random.seed(42)
Seed ==
  /\ pc = "idle"
  /\ main_pc = "seed"
  /\ rng' = seed42
  /\ main_pc' = "load"
  /\ UNCHANGED << TEST_MATCHES, CUSTOMER_MATCH_RESULTS, thresholds, similarities,
                  valid_embedding_column, last_event, last_call, last_return,
                  valid_csv, seed42, valid_data, output_data, source_records,
                  record_index, loop_i, pc, err, test_matches_csv, run, prev_csv,
                  reads, issued, called, calls >>

load_valid_data ==
  /\ CallerAt("load")
  /\ valid_data' = DictReader(valid_csv)
  /\ called' = called \cup { "load_valid_data" }
  /\ calls' = calls + 1
  /\ main_pc' = Returned("generate")
  /\ UNCHANGED << TEST_MATCHES, CUSTOMER_MATCH_RESULTS, thresholds, similarities,
                  valid_embedding_column, last_event, last_call, last_return,
                  valid_csv, seed42, rng, output_data, source_records,
                  record_index, loop_i, pc, err, test_matches_csv, run, prev_csv,
                  reads, issued >>

\* The shuffle is done on self.valid_data itself, not on a copy.
generate_test_data_in_place ==
  /\ CallerAt("generate")
  /\ LET shuffled == random_shuffle([k \in 1..Len(valid_data) |-> k], rng)
     IN  /\ valid_data' = [k \in 1..Len(valid_data) |-> valid_data[shuffled.v[k]]]
         /\ rng' = shuffled.g
  /\ source_records' = [k \in 1..Len(valid_data) |-> k]
  /\ record_index' = 0
  /\ loop_i' = 0
  /\ pc' = "exact"
  /\ reads' = << >>
  /\ called' = called \cup { "generate_test_data", "shuffle" }
  /\ calls' = calls + 1
  /\ UNCHANGED << TEST_MATCHES, CUSTOMER_MATCH_RESULTS, thresholds, similarities,
                  valid_embedding_column, last_event, last_call, last_return,
                  valid_csv, seed42, output_data, main_pc, err,
                  test_matches_csv, run, prev_csv, issued >>

\* generate_test_data up to its first loop: copy, shuffle, record_index = 0
generate_test_data ==
  /\ CallerAt("generate")
  /\ LET shuffled == random_shuffle([k \in 1..Len(valid_data) |-> k], rng)
     IN  /\ source_records' = shuffled.v
         /\ rng' = shuffled.g
  /\ record_index' = 0
  /\ loop_i' = 0
  /\ pc' = "exact"
  /\ reads' = << >>
  /\ called' = called \cup { "generate_test_data", "shuffle" }
  /\ calls' = calls + 1
  /\ UNCHANGED << TEST_MATCHES, CUSTOMER_MATCH_RESULTS, thresholds, similarities,
                  valid_embedding_column, last_event, last_call, last_return,
                  valid_csv, seed42, valid_data, output_data, main_pc, err,
                  test_matches_csv, run, prev_csv, issued >>

\* self.create_..._match(record), by the name fn of the function called
CreateMatch(fn, record, u, g) ==
  CASE fn = "create_exact_match" -> create_exact_match(record, u, g)
    [] fn = "create_very_close_match" -> create_very_close_match(record, u, g)
    [] fn = "create_somewhat_close_match" -> create_somewhat_close_match(record, u, g)
    [] fn = "create_not_close_match" -> create_not_close_match(record, u, g)

\* The columns of ReadColumns a record lacks
MissingColumns(record) ==
  { ReadColumns[j] : j \in 1..Len(ReadColumns) } \ DOMAIN record

\* self.output_data.append(match); record_index += 1; and the loop goes on
\* or ends
Appended(band, count, next_pc, fn, match) ==
  /\ output_data' = Append(output_data, match.v)
  /\ rng' = match.g
  /\ record_index' = record_index + 1
  /\ reads' = Append(reads, [index |-> record_index, fn |-> fn, g |-> rng])
  /\ issued' = Append(issued, match.v["SOURCE_PKEY"])
  /\ called' = called \cup { fn }
  /\ err' = err
  /\ IF loop_i + 1 < count
     THEN /\ loop_i' = loop_i + 1
          /\ pc' = band
          /\ main_pc' = main_pc
     ELSE /\ loop_i' = 0
          /\ pc' = next_pc
          /\ main_pc' = IF next_pc = "idle" THEN Returned("save") ELSE main_pc

\* One iteration of a for loop of generate_test_data:
\*     match = self.create_..._match(source_records[record_index])
\*     self.output_data.append(match)
\*     record_index += 1
\* source_records[record_index] raises IndexError past the end of the pool.
\* record[column] raises KeyError for a column the header lacks: in
\* create_exact_match the identifier has been generated by then, and the
\* source system drawn unless the column is NAME.  The first loop reads every
\* column of ReadColumns and all records have the same columns, so the later
\* loops never see a KeyError.
LoopBody(band, count, next_pc, fn) ==
  /\ IF record_index >= Len(source_records)
     THEN /\ err' = "IndexError"
          /\ pc' = "idle"
          /\ main_pc' = Raised
          /\ UNCHANGED << rng, output_data, record_index, loop_i, reads, issued, called >>
     ELSE LET record == valid_data[source_records[record_index + 1]]
          IN  IF MissingColumns(record) # { }
              THEN /\ err' = "KeyError"
                   /\ pc' = "idle"
                   /\ main_pc' = Raised
                   /\ called' = called \cup { fn }
                   /\ reads' = Append(reads, [index |-> record_index, fn |-> fn, g |-> rng])
                   /\ IF band = "exact"
                      THEN /\ \E u \in Uuid4Values :
                                issued' = Append(issued, generate_source_pkey(u))
                           /\ rng' = IF "NAME" \in MissingColumns(record)
                                     THEN rng ELSE NextRng(rng)
                      ELSE UNCHANGED << rng, issued >>
                   /\ UNCHANGED << output_data, record_index, loop_i >>
              ELSE \E u \in Uuid4Values :
                     Appended(band, count, next_pc, fn, CreateMatch(fn, record, u, rng))
  /\ UNCHANGED << TEST_MATCHES, CUSTOMER_MATCH_RESULTS, thresholds, similarities,
                  valid_embedding_column, last_event, last_call, last_return,
                  valid_csv, seed42, valid_data, source_records, test_matches_csv,
                  run, prev_csv, calls >>

ExactLoop ==
  /\ pc = "exact"
  /\ LoopBody("exact", ExactN, "very_close", "create_exact_match")

VeryCloseLoop ==
  /\ pc = "very_close"
  /\ LoopBody("very_close", VeryCloseN, "somewhat_close", "create_very_close_match")

SomewhatCloseLoop ==
  /\ pc = "somewhat_close"
  /\ LoopBody("somewhat_close", SomewhatCloseN, "not_close",
              "create_somewhat_close_match")

\* The last loop stops one iteration early.
NotCloseLoopShort ==
  /\ pc = "not_close"
  /\ LoopBody("not_close", NotCloseN - 1, "idle", "create_not_close_match")

NotCloseLoop ==
  /\ pc = "not_close"
  /\ LoopBody("not_close", NotCloseN, "idle", "create_not_close_match")

save_test_data ==
  /\ CallerAt("save")
  /\ test_matches_csv' = [exists |-> TRUE, rows |-> DictWriterRows(output_data)]
  /\ called' = called \cup { "save_test_data" }
  /\ calls' = calls + 1
  /\ main_pc' = Returned("done")
  /\ UNCHANGED << TEST_MATCHES, CUSTOMER_MATCH_RESULTS, thresholds, similarities,
                  valid_embedding_column, last_event, last_call, last_return,
                  valid_csv, seed42, rng, valid_data, output_data, source_records,
                  record_index, loop_i, pc, err, run, prev_csv, reads, issued >>

\* The script is executed a second time on the same input: a new process, a
\* new generator.  The file the first execution wrote stays on disk; a copy of
\* it is kept for comparison.
Rerun ==
  /\ run = "first"
  /\ main_pc \in { "done", "error" }
  /\ run' = "second"
  /\ prev_csv' = test_matches_csv
  /\ rng' \in 0..(RngMod - 1)
  /\ valid_data' = << >>
  /\ output_data' = << >>
  /\ source_records' = << >>
  /\ record_index' = 0
  /\ loop_i' = 0
  /\ pc' = "idle"
  /\ err' = "none"
  /\ reads' = << >>
  /\ issued' = << >>
  /\ called' = { }
  /\ calls' = 0
  /\ main_pc' = "seed"
  /\ UNCHANGED << TEST_MATCHES, CUSTOMER_MATCH_RESULTS, thresholds, similarities,
                  valid_embedding_column, last_event, last_call, last_return,
                  valid_csv, seed42, test_matches_csv >>

\* One execution of the script
Next ==
  \/ Seed
  \/ load_valid_data
  \/ generate_test_data
  \/ ExactLoop
  \/ VeryCloseLoop
  \/ SomewhatCloseLoop
  \/ NotCloseLoop
  \/ save_test_data

Spec == Init /\ [][Next]_vars

\* Two executions of the script on the same input
NextTwice ==
  \/ Seed
  \/ load_valid_data
  \/ generate_test_data
  \/ ExactLoop
  \/ VeryCloseLoop
  \/ SomewhatCloseLoop
  \/ NotCloseLoop
  \/ save_test_data
  \/ Rerun

SpecTwice == Init /\ [][NextTwice]_vars

\* Any sequence of method calls on one generator instance

NextApi ==
  \/ load_valid_data
  \/ generate_test_data
  \/ ExactLoop
  \/ VeryCloseLoop
  \/ SomewhatCloseLoop
  \/ NotCloseLoop
  \/ save_test_data

SpecApi == InitApi /\ [][NextApi]_vars

----------------------------------------------------------------------------
(* The perturbation primitives called on their own, on any text and in any *)
(* state of the random stream                                              *)

MaxTypos == 2

\* The values of a column in the catalogue
ColumnValues(column) == { Catalogue[i][column] : i \in 1..Len(Catalogue) }

\* Address lines: those of the catalogue, and lines with a number glued to
\* the street name, a street type that occurs twice, a second line, a line
\* break at the end, and no number, abbreviation key or street type at all
Addresses ==
  ColumnValues("ADDRESS_LINE_1") \cup
  { <<"1","M","a","i","n"," ","S","t">>,
    <<"1","2","3"," ","M","a","i","n"," ","S","t">>,
    <<"5"," ","S","t"," ","J","a","m","e","s"," ","S","t">>,
    <<"1","2"," ","M","a","i","n"," ","S","t","\n","A","p","t"," ","4">>,
    <<"7"," ","P","a","r","k"," ","A","v","e","\n">>,
    <<"P","i","n","e"," ","H","i","l","l">> }

Names == ColumnValues("NAME")

\* Postal codes: those of the catalogue, and a 5-digit code, codes with a
\* short suffix and with two hyphens, a 4-digit code and an empty one
PostalCodes ==
  ColumnValues("POSTAL_CODE") \cup
  { <<"2","4","9","7","2">>,
    <<"1","2","3","4","5","-","1","2">>,
    <<"1","2","3","4","5","-","1","2","3","4","-","9","9">>,
    <<"1","2","3","4">>,
    <<>> }

\* The variables of the generator and of the script, which a primitive
\* neither reads nor writes
generator_vars ==
  << valid_csv, seed42, valid_data, output_data, source_records, record_index,
     loop_i, pc, main_pc, err, test_matches_csv, run, prev_csv, reads, issued,
     called, calls >>

\* A generator on which no method has been called, and any stream state
InitPrimitives ==
  /\ valid_csv = CsvFile(fieldnames, 0)
  /\ seed42 = 0
  /\ rng \in 0..(RngMod - 1)
  /\ Fresh
  /\ NoDashboard
  /\ main_pc = "api"
  /\ test_matches_csv = NoFile
  /\ run = "first"
  /\ prev_csv = NoFile

\* The call fn(text, ...) made in stream state rng
Call(fn, text, aggressive, num_typos) ==
  [fn |-> fn, text |-> text, aggressive |-> aggressive, num_typos |-> num_typos,
   g |-> rng]

\* The call returns: its value, and the stream state it leaves
Return(result) ==
  /\ last_return' = result.v
  /\ rng' = result.g
  /\ UNCHANGED generator_vars
  /\ UNCHANGED dashboard_vars

CallApplyAbbreviations ==
  \E text \in Names \cup Addresses, aggressive \in BOOLEAN :
    /\ last_call' = Call("apply_abbreviations", text, aggressive, 0)
    /\ Return(apply_abbreviations(text, aggressive, rng))

CallApplyTypos ==
  \E text \in Names \cup Addresses, num_typos \in (-1)..MaxTypos :
    /\ last_call' = Call("apply_typos", text, FALSE, num_typos)
    /\ Return(apply_typos(text, num_typos, rng))

CallVaryAddressNumber ==
  \E address \in Addresses :
    /\ last_call' = Call("vary_address_number", address, FALSE, 0)
    /\ Return(vary_address_number(address, rng))

CallVaryPostalCode ==
  \E postal_code \in PostalCodes :
    /\ last_call' = Call("vary_postal_code", postal_code, FALSE, 0)
    /\ Return(vary_postal_code(postal_code, rng))

\* create_not_close_match once random.random() < 0.3 held: the for loop over
\* street_types
CallChangeStreetType ==
  \E address \in Addresses :
    /\ last_call' = Call("change_street_type", address, FALSE, 0)
    /\ Return(change_street_type(address, rng))

NextPrimitives ==
  \/ CallApplyAbbreviations
  \/ CallApplyTypos
  \/ CallVaryAddressNumber
  \/ CallVaryPostalCode
  \/ CallChangeStreetType

SpecPrimitives == InitPrimitives /\ [][NextPrimitives]_vars

----------------------------------------------------------------------------
(* The create_*_match methods called on their own, on any record and in any *)
(* state of the random stream                                               *)

\* Canonical records: those of the catalogue, and one whose name and address
\* hold abbreviation keys, a typo key, a number and a street type together
Records ==
  { Catalogue[i] : i \in 1..Len(Catalogue) } \cup
  { ("SOURCE_PKEY" :> <<"V","5">> @@
     "NAME" :> <<"N","o","r","t","h"," ","C","h","r","i","s","t","i","a","n"," ","A","c","a","d","e","m","y">> @@
     "SOURCE_SYSTEM" :> "dynamics" @@
     "ADDRESS_LINE_1" :> <<"2"," ","S","o","u","t","h"," ","S","t","r","e","e","t">> @@
     "ADDRESS_LINE_2" :> <<>> @@
     "CITY" :> <<"T","r","o","y">> @@
     "STATE" :> <<"N","Y">> @@
     "POSTAL_CODE" :> <<"1","2","1","8","0","-","4","4","0","1">> @@
     "COUNTRY" :> <<"U","S">>) }

CallCreateExactMatch ==
  \E record \in Records, u \in Uuid4Values :
    /\ last_call' = Call("create_exact_match", record, FALSE, 0)
    /\ Return(create_exact_match(record, u, rng))

CallCreateVeryCloseMatch ==
  \E record \in Records, u \in Uuid4Values :
    /\ last_call' = Call("create_very_close_match", record, FALSE, 0)
    /\ Return(create_very_close_match(record, u, rng))

CallCreateSomewhatCloseMatch ==
  \E record \in Records, u \in Uuid4Values :
    /\ last_call' = Call("create_somewhat_close_match", record, FALSE, 0)
    /\ Return(create_somewhat_close_match(record, u, rng))

CallCreateNotCloseMatch ==
  \E record \in Records, u \in Uuid4Values :
    /\ last_call' = Call("create_not_close_match", record, FALSE, 0)
    /\ Return(create_not_close_match(record, u, rng))

NextCreate ==
  \/ CallCreateExactMatch
  \/ CallCreateVeryCloseMatch
  \/ CallCreateSomewhatCloseMatch
  \/ CallCreateNotCloseMatch

SpecCreate == InitPrimitives /\ [][NextCreate]_vars

----------------------------------------------------------------------------
(* The dashboard: its tables, its queries and its page *)

\* Bound: the number of rows of VALID_CUSTOMERS
NumValid == 2

\* Bound: the number of rows TEST_MATCHES grows to
MaxTests == 2

\* VALID_CUSTOMERS.ID; every row has an embedding vector
ValidIds == 1..NumValid

\* NULL, and the vector EMBED_TEXT_768 gives for a text: the same text has the
\* same vector, and no text has NULL
NULL == << >>

EMBED_TEXT_768(text) == << text >>

\* VECTOR_COSINE_SIMILARITY of a valid customer's vector and a test record's
\* embedding, in thousandths; no two valid customers tie on one text
VECTOR_COSINE_SIMILARITY(valid_id, embedding) ==
  1000 - ((37 * valid_id + 61 * Len(embedding[1])) % 120)

\* str.strip(), for the blank
RECURSIVE str_lstrip(_)
str_lstrip(s) ==
  IF s # << >> /\ Head(s) = " " THEN str_lstrip(Tail(s)) ELSE s

RECURSIVE str_rstrip(_)
str_rstrip(s) ==
  IF s # << >> /\ s[Len(s)] = " " THEN str_rstrip(SubSeq(s, 1, Len(s) - 1)) ELSE s

str_strip(s) == str_rstrip(str_lstrip(s))

BLANK == <<" ">>

\* f"{NAME} {ADDRESS_LINE_1} {ADDRESS_LINE_2} {CITY} {STATE} {POSTAL_CODE}
\* {COUNTRY}".strip()
full_detail(record_data) ==
  str_strip(record_data["NAME"] \o BLANK \o record_data["ADDRESS_LINE_1"] \o BLANK
            \o record_data["ADDRESS_LINE_2"] \o BLANK \o record_data["CITY"] \o BLANK
            \o record_data["STATE"] \o BLANK \o record_data["POSTAL_CODE"] \o BLANK
            \o record_data["COUNTRY"])

\* What the analyst types into the form
FormValues(name, source_system) ==
  "NAME" :> name @@
  "SOURCE_SYSTEM" :> source_system @@
  "ADDRESS_LINE_1" :> <<"1"," ","M","a","i","n"," ","S","t">> @@
  "ADDRESS_LINE_2" :> << >> @@
  "CITY" :> <<"T","r","o","y">> @@
  "STATE" :> <<"N","Y">> @@
  "POSTAL_CODE" :> <<"1","2","1","8","0">> @@
  "COUNTRY" :> <<"U","S">>

FormInputs ==
  { FormValues(<<"O","a","k"," ","S","c","h","o","o","l">>, <<"l","e","g","a","c","y">>),
    FormValues(<<"O","a","k"," ","S","c","h","o","l">>, <<"l","e","g","a","c","y">>),
    FormValues(<<" ">>, <<"l","e","g","a","c","y">>) }

\* The required fields of the form are filled
FormIsValid(form) ==
  /\ str_strip(form["NAME"]) # << >>
  /\ str_strip(form["SOURCE_SYSTEM"]) # << >>

\* record_data of the form: every field stripped
RecordData(form) == [column \in DOMAIN form |-> str_strip(form[column])]

\* A row of TEST_MATCHES, without its key
TestRow(record_data, detail, embedding) ==
  [record_data |-> record_data, CUSTOMER_FULL_DETAIL |-> detail,
   CUSTOMER_FULL_DETAIL_EMBEDDING |-> embedding]

\* The CASE of the two INSERT statements: the first threshold the score reaches
match_category(score, th) ==
  IF score >= th.exact THEN "EXACT"
  ELSE IF score >= th.very_close THEN "VERY_CLOSE"
  ELSE IF score >= th.somewhat_close THEN "SOMEWHAT_CLOSE"
  ELSE "NOT_CLOSE"

\* The row the SELECT of both INSERT statements builds from v and t
ResultRow(valid_id, test_id, tests, th) ==
  [VALID_ID |-> valid_id,
   TEST_ID |-> test_id,
   TEST_CUSTOMER_FULL_DETAIL |-> tests[test_id].CUSTOMER_FULL_DETAIL,
   SIMILARITY_SCORE |->
     VECTOR_COSINE_SIMILARITY(valid_id, tests[test_id].CUSTOMER_FULL_DETAIL_EMBEDDING),
   MATCH_CATEGORY |->
     match_category(
       VECTOR_COSINE_SIMILARITY(valid_id, tests[test_id].CUSTOMER_FULL_DETAIL_EMBEDDING),
       th)]

\* The test records the WHERE clauses keep
Embedded(tests) ==
  { test_id \in DOMAIN tests : tests[test_id].CUSTOMER_FULL_DETAIL_EMBEDDING # NULL }

\* QUALIFY ROW_NUMBER() OVER (PARTITION BY t.SOURCE_PKEY ORDER BY
\* SIMILARITY_SCORE DESC) = 1
BestValid(test_id, tests) ==
  CHOOSE v \in ValidIds : \A w \in ValidIds :
    VECTOR_COSINE_SIMILARITY(v, tests[test_id].CUSTOMER_FULL_DETAIL_EMBEDDING)
      >= VECTOR_COSINE_SIMILARITY(w, tests[test_id].CUSTOMER_FULL_DETAIL_EMBEDDING)

\* compute_similarities: the table it leaves, which is also what it returns
compute_similarities(results, tests, th) ==
  IF Cardinality(results) # Cardinality(DOMAIN tests)
  THEN { ResultRow(BestValid(test_id, tests), test_id, tests, th) :
           test_id \in Embedded(tests) }
  ELSE results

\* update_test_record: the UPDATE of the row whose key is SOURCE_PKEY
update_test_record(tests, record_data) ==
  [test_id \in DOMAIN tests |->
     IF test_id = record_data["SOURCE_PKEY"]
     THEN TestRow(record_data, full_detail(record_data),
                  tests[test_id].CUSTOMER_FULL_DETAIL_EMBEDDING)
     ELSE tests[test_id]]

\* create_test_record: the INSERT, then the UPDATE which embeds the text;
\* u is the value uuid4 draws
create_test_record(tests, record_data, u) ==
  tests @@
  (generate_source_pkey(u) :>
     TestRow(record_data, full_detail(record_data),
             EMBED_TEXT_768(full_detail(record_data))))

\* recalculate_similarities_for_record: the DELETE, then the INSERT of one row
\* for every valid customer; the INSERT fails, after the DELETE, when
\* VALID_CUSTOMERS lacks the column its CASE and WHERE name
recalculate_similarities_for_record(results, tests, test_id, th, has_column) ==
  IF has_column
  THEN { row \in results : row.TEST_ID # test_id } \cup
       { ResultRow(v, t, tests, th) : v \in ValidIds, t \in Embedded(tests) \cap { test_id } }
  ELSE { row \in results : row.TEST_ID # test_id }

\* The values a slider is moved to: its default and the end of its range
\* which crosses a neighbouring slider's range
Sliders ==
  [exact |-> { 900, DEFAULT_THRESHOLDS.exact },
   very_close |-> { DEFAULT_THRESHOLDS.very_close, 990 },
   somewhat_close |-> { DEFAULT_THRESHOLDS.somewhat_close, 950 }]

\* The forms whose required fields are filled
ValidForms == { form \in FormInputs : FormIsValid(form) }

\* The tables a session finds: TEST_MATCHES as the loading script left it,
\* every text embedded, and no results yet
LoadedTests ==
  { << >> } \cup
  { generate_source_pkey(1) :>
      TestRow(RecordData(form), full_detail(RecordData(form)),
              EMBED_TEXT_768(full_detail(RecordData(form)))) :
      form \in ValidForms }

\* A session opens: no generator is running
InitDashboard ==
  /\ valid_csv = CsvFile(fieldnames, 0)
  /\ seed42 = 0
  /\ rng = 0
  /\ Fresh
  /\ main_pc = "api"
  /\ test_matches_csv = NoFile
  /\ run = "first"
  /\ prev_csv = NoFile
  /\ TEST_MATCHES \in LoadedTests
  /\ CUSTOMER_MATCH_RESULTS = { }
  /\ thresholds = DEFAULT_THRESHOLDS
  /\ similarities = { }
  /\ valid_embedding_column \in BOOLEAN
  /\ last_event = "none"

\* What no dashboard step changes
DashboardFrame ==
  /\ UNCHANGED generator_vars
  /\ UNCHANGED << rng, last_call, last_return, valid_embedding_column >>

\* The functions, called one at a time with the session's thresholds

CallComputeSimilarities ==
  /\ CUSTOMER_MATCH_RESULTS' =
       compute_similarities(CUSTOMER_MATCH_RESULTS, TEST_MATCHES, thresholds)
  /\ similarities' = CUSTOMER_MATCH_RESULTS'
  /\ last_event' = "compute_similarities"
  /\ UNCHANGED << TEST_MATCHES, thresholds >>
  /\ DashboardFrame

CallCreateTestRecord ==
  \E form \in ValidForms, u \in Uuid4Values :
    /\ Cardinality(DOMAIN TEST_MATCHES) < MaxTests
    /\ generate_source_pkey(u) \notin DOMAIN TEST_MATCHES
    /\ TEST_MATCHES' = create_test_record(TEST_MATCHES, RecordData(form), u)
    /\ last_event' = "create_test_record"
    /\ UNCHANGED << CUSTOMER_MATCH_RESULTS, thresholds, similarities >>
    /\ DashboardFrame

CallUpdateTestRecord ==
  \E form \in ValidForms, test_id \in DOMAIN TEST_MATCHES :
    /\ TEST_MATCHES' =
         update_test_record(TEST_MATCHES,
                            ("SOURCE_PKEY" :> test_id) @@ RecordData(form))
    /\ last_event' = "update_test_record"
    /\ UNCHANGED << CUSTOMER_MATCH_RESULTS, thresholds, similarities >>
    /\ DashboardFrame

CallRecalculateSimilaritiesForRecord ==
  \E test_id \in DOMAIN TEST_MATCHES :
    /\ CUSTOMER_MATCH_RESULTS' =
         recalculate_similarities_for_record(CUSTOMER_MATCH_RESULTS, TEST_MATCHES,
                                             test_id, thresholds,
                                             valid_embedding_column)
    /\ last_event' = "recalculate_similarities_for_record"
    /\ UNCHANGED << TEST_MATCHES, thresholds, similarities >>
    /\ DashboardFrame

NextDashboardCalls ==
  \/ CallComputeSimilarities
  \/ CallCreateTestRecord
  \/ CallUpdateTestRecord
  \/ CallRecalculateSimilaritiesForRecord

SpecDashboardCalls == InitDashboard /\ [][NextDashboardCalls]_vars

\* The page: each handler runs main() to its end, the rerun it asks for included

\* main() has run once: the sliders and the form are on the page
Rendered == last_event # "none"

\* main() runs with the sliders where they are
PageRun ==
  /\ CUSTOMER_MATCH_RESULTS' =
       compute_similarities(CUSTOMER_MATCH_RESULTS, TEST_MATCHES, thresholds)
  /\ similarities' = CUSTOMER_MATCH_RESULTS'
  /\ last_event' = "run"
  /\ UNCHANGED << TEST_MATCHES, thresholds >>
  /\ DashboardFrame

\* The analyst moves a slider: new_thresholds differs from the stored
\* thresholds, is stored, st.rerun(), and the rerun computes the similarities
MoveSlider ==
  \E slider \in DOMAIN Sliders :
    \E value \in Sliders[slider] :
      /\ Rendered
      /\ [thresholds EXCEPT ![slider] = value] # thresholds
      /\ thresholds' = [thresholds EXCEPT ![slider] = value]
      /\ CUSTOMER_MATCH_RESULTS' =
           compute_similarities(CUSTOMER_MATCH_RESULTS, TEST_MATCHES, thresholds')
      /\ similarities' = CUSTOMER_MATCH_RESULTS'
      /\ last_event' = "slider"
      /\ UNCHANGED TEST_MATCHES
      /\ DashboardFrame

\* The form is saved with an identifier: update, recalculate, rerun
SubmitUpdate ==
  \E form \in FormInputs, id_value \in DOMAIN TEST_MATCHES :
    /\ Rendered
    /\ FormIsValid(form)
    /\ TEST_MATCHES' =
         update_test_record(TEST_MATCHES,
                            ("SOURCE_PKEY" :> id_value) @@ RecordData(form))
    /\ CUSTOMER_MATCH_RESULTS' =
         compute_similarities(
           recalculate_similarities_for_record(CUSTOMER_MATCH_RESULTS, TEST_MATCHES',
                                               id_value, thresholds,
                                               valid_embedding_column),
           TEST_MATCHES', thresholds)
    /\ similarities' = CUSTOMER_MATCH_RESULTS'
    /\ last_event' = "update"
    /\ UNCHANGED thresholds
    /\ DashboardFrame

\* The form is saved without an identifier: create, recalculate, rerun
SubmitCreate ==
  \E form \in FormInputs, u \in Uuid4Values :
    /\ Rendered
    /\ FormIsValid(form)
    /\ Cardinality(DOMAIN TEST_MATCHES) < MaxTests
    /\ generate_source_pkey(u) \notin DOMAIN TEST_MATCHES
    /\ TEST_MATCHES' = create_test_record(TEST_MATCHES, RecordData(form), u)
    /\ CUSTOMER_MATCH_RESULTS' =
         compute_similarities(
           recalculate_similarities_for_record(CUSTOMER_MATCH_RESULTS, TEST_MATCHES',
                                               generate_source_pkey(u), thresholds,
                                               valid_embedding_column),
           TEST_MATCHES', thresholds)
    /\ similarities' = CUSTOMER_MATCH_RESULTS'
    /\ last_event' = "create"
    /\ UNCHANGED thresholds
    /\ DashboardFrame

NextDashboard ==
  \/ PageRun
  \/ MoveSlider
  \/ SubmitUpdate
  \/ SubmitCreate

SpecDashboard == InitDashboard /\ [][NextDashboard]_vars

----------------------------------------------------------------------------
(* Properties of a run *)

CreateFunctions ==
  { "create_exact_match", "create_very_close_match", "create_somewhat_close_match",
    "create_not_close_match" }

\* The canonical record the k-th create_*_match call of this generate call read
SourceOf(k) == valid_data[source_records[reads[k].index + 1]]

\* The header of the input file lacks a column the generator reads
HeaderLacksColumn ==
  \E j \in 1..Len(ReadColumns) : IndexIn(ReadColumns[j], valid_csv.header) = 0

\* generate_test_data has returned normally
Generated == main_pc \in { "save", "done" }

\* C1: in one generate_test_data call on a pool of at least the total number
\* of records, no position of the shuffled pool is read by two create_*_match
\* calls, and no canonical record is the source of two derived records.
C1_DisjointSampling ==
  Len(valid_data) >= TotalN =>
    \A i, j \in 1..Len(reads) :
      i # j => /\ reads[i].index # reads[j].index
               /\ source_records[reads[i].index + 1] # source_records[reads[j].index + 1]

\* A complete run on a pool larger than the total: every derived record has
\* been built, one canonical record is left unused.
C1_Witness ==
  /\ Generated
  /\ Len(valid_data) > TotalN
  /\ Len(reads) = TotalN
  /\ Len(output_data) = TotalN

\* C2: on a pool smaller than the total (the input file being well formed),
\* generate_test_data fails before any derived record is generated: once it
\* has been entered, output_data is empty and no create_*_match call has been
\* made.
C2_FailsBeforeGeneration ==
  (Len(valid_data) < TotalN /\ ~HeaderLacksColumn /\ "generate_test_data" \in called) =>
    /\ output_data = << >>
    /\ called \cap CreateFunctions = { }

\* C3: a full run of main() on a pool smaller than the total never reaches
\* save_test_data and writes no output file; when the generate_test_data call
\* is over, main() has ended in an error.
C3_NoOutputOnSmallPool ==
  valid_csv.nrows < TotalN =>
    /\ main_pc \in { "seed", "load", "generate", "error" }
    /\ "save_test_data" \notin called
    /\ test_matches_csv = NoFile
    /\ ("generate_test_data" \in called /\ pc = "idle") =>
         (main_pc = "error" /\ err # "none")

\* The run has stopped on the IndexError with some records already generated,
\* and nothing is on disk.
C3_Witness ==
  /\ valid_csv.nrows < TotalN
  /\ main_pc = "error"
  /\ err = "IndexError"
  /\ Len(output_data) > 0
  /\ test_matches_csv = NoFile

\* C4: two executions of the script with the same input and the same seed
\* write identical output files, the identifier column included.
C4_Determinism ==
  (run = "second" /\ main_pc = "done" /\ prev_csv.exists) =>
    test_matches_csv = prev_csv

BandAt(k) ==
  IF k <= CeilDiv(EXACT_MATCH_COUNT, Scale) THEN "create_exact_match"
  ELSE IF k <= CeilDiv(EXACT_MATCH_COUNT, Scale) + CeilDiv(VERY_CLOSE_COUNT, Scale)
  THEN "create_very_close_match"
  ELSE IF k <= CeilDiv(EXACT_MATCH_COUNT, Scale) + CeilDiv(VERY_CLOSE_COUNT, Scale)
                 + CeilDiv(SOMEWHAT_CLOSE_COUNT, Scale)
  THEN "create_somewhat_close_match"
  ELSE "create_not_close_match"

\* derived is the result of the create function fn on record when the random
\* stream is in state g, for the uuid4 value its identifier was cut from
DerivedBy(fn, record, g, derived) ==
  \E u \in { w \in Uuid4Values :
                generate_source_pkey(w) = derived["SOURCE_PKEY"] } :
    derived = CreateMatch(fn, record, u, g).v

\* C5: after one generate_test_data call on a fresh generator the output is
\* four contiguous blocks in the order exact, very_close, somewhat_close,
\* not_close, of the configured sizes; the k-th output record is derived from
\* the k-th record of the shuffled pool; the four counts sum to TOTAL_RECORDS.
C5_BandBlocks ==
  /\ EXACT_MATCH_COUNT + VERY_CLOSE_COUNT + SOMEWHAT_CLOSE_COUNT + NOT_CLOSE_COUNT
       = TOTAL_RECORDS
  /\ \A k \in 1..Len(output_data) :
       /\ reads[k].index = k - 1
       /\ reads[k].fn = BandAt(k)
       /\ DerivedBy(BandAt(k), valid_data[source_records[k]], reads[k].g,
                    output_data[k])
  /\ Generated =>
       Len(output_data) = CeilDiv(EXACT_MATCH_COUNT, Scale)
                          + CeilDiv(VERY_CLOSE_COUNT, Scale)
                          + CeilDiv(SOMEWHAT_CLOSE_COUNT, Scale)
                          + CeilDiv(NOT_CLOSE_COUNT, Scale)

\* generate_test_data has returned with all four blocks built, from a pool
\* the shuffle has reordered.
C5_Witness ==
  /\ main_pc = "save"
  /\ Len(output_data) = TotalN
  /\ reads[TotalN].fn = "create_not_close_match"
  /\ \E k \in 1..TotalN : source_records[k] # k

\* C6: whatever the sequence of load_valid_data, generate_test_data and
\* save_test_data calls on one instance, every save_test_data call writes
\* exactly the configured total number of rows.
C6_SaveWritesTotal ==
  test_matches_csv.exists => Len(test_matches_csv.rows) = TotalN

\* C7: a record built by create_exact_match has name, address lines, city,
\* state, postal code and country equal to those of its source record.
C7_ExactFidelity ==
  \A k \in 1..Len(output_data) :
    reads[k].fn = "create_exact_match" =>
      \A j \in 1..Len(ReadColumns) :
        output_data[k][ReadColumns[j]] = SourceOf(k)[ReadColumns[j]]

\* An exact-band record whose source system and identifier differ from its
\* source's while the seven other columns agree.
C7_Witness ==
  \E k \in 1..Len(output_data) :
    /\ reads[k].fn = "create_exact_match"
    /\ output_data[k]["SOURCE_SYSTEM"] # SourceOf(k)["SOURCE_SYSTEM"]
    /\ output_data[k]["SOURCE_PKEY"] # SourceOf(k)["SOURCE_PKEY"]
    /\ \A j \in 1..Len(ReadColumns) :
         output_data[k][ReadColumns[j]] = SourceOf(k)[ReadColumns[j]]

\* TEST_ followed by 12 upper-case hexadecimal characters
HasTestFormat(pkey) ==
  /\ Len(pkey) = Len(TEST_PREFIX) + 12
  /\ SubSeq(pkey, 1, Len(TEST_PREFIX)) = TEST_PREFIX
  /\ \A i \in (Len(TEST_PREFIX) + 1)..Len(pkey) :
       IndexIn(pkey[i], str_upper(HexChars)) > 0

\* C8: the identifiers generated within one run are pairwise distinct, and
\* each is TEST_ followed by 12 upper-case hexadecimal characters.
C8_UniqueIdentifiers ==
  /\ \A i, j \in 1..Len(issued) : i # j => issued[i] # issued[j]
  /\ \A i \in 1..Len(issued) : HasTestFormat(issued[i])

\* C9: when the header lacks a column that is read, load_valid_data fails with
\* a parse error and the run stops before generate_test_data: no shuffle, no
\* identifier, no create_*_match call.
C9_LoadRejectsMissingColumn ==
  HeaderLacksColumn =>
    /\ "load_valid_data" \in called => (err = "ParseError" /\ main_pc = "error")
    /\ "generate_test_data" \notin called
    /\ "shuffle" \notin called
    /\ issued = << >>
    /\ called \cap CreateFunctions = { }

\* C10: generate_test_data and the create_*_match calls leave the loaded
\* canonical set as load_valid_data built it: same records, same values, same
\* order.
C10_ValidDataUnchanged ==
  "load_valid_data" \in called => valid_data = DictReader(valid_csv)

\* A complete generation from a reordered copy, the canonical set still as
\* loaded.
C10_Witness ==
  /\ Generated
  /\ Len(output_data) = TotalN
  /\ \E k \in 1..Len(source_records) : source_records[k] # k
  /\ valid_data = DictReader(valid_csv)

----------------------------------------------------------------------------
(* Properties of the perturbation primitives *)

\* The primitive fn has been called on its own
Called(fn) == last_call.fn = fn

\* The integer an address starts with, and what follows it
LeadingNumber(address) == int_of(SubSeq(address, 1, LeadingDigits(address)))
Remainder(address) == SubSeq(address, LeadingDigits(address) + 1, Len(address))

\* C11: for an address that starts with an integer n, vary_address_number
\* returns max(1, n + d) for some d of -3, -2, -1, 1, 2, 3, followed by the
\* original remainder unchanged, so that the new number is at least 1.
C11_NumberDriftClamped ==
  (Called("vary_address_number") /\ LeadingDigits(last_call.text) > 0) =>
    /\ \E d \in { -3, -2, -1, 1, 2, 3 } :
         last_return = str_of(Max(1, LeadingNumber(last_call.text) + d))
                         \o Remainder(last_call.text)
    /\ LeadingNumber(last_return) >= 1

\* A bare 5-digit numeric postal code
IsBareZip(postal_code) == Len(postal_code) = 5 /\ str_isdigit(postal_code)

\* C12: for a bare 5-digit numeric postal code vary_postal_code returns a
\* 5-character numeric string; when random.random() < 0.5 (last digit branch)
\* its first four characters are the input's, otherwise (last two digits
\* branch) its first three characters are the input's.
C12_BareZipDrift ==
  (Called("vary_postal_code") /\ IsBareZip(last_call.text)) =>
    /\ Len(last_return) = 5
    /\ str_isdigit(last_return)
    /\ IF random_lt(5, last_call.g).v
       THEN SubSeq(last_return, 1, 4) = SubSeq(last_call.text, 1, 4)
       ELSE SubSeq(last_return, 1, 3) = SubSeq(last_call.text, 1, 3)

\* 24972 in the last two digits branch: 249 stays and the fourth digit changes
C12_Witness ==
  /\ Called("vary_postal_code")
  /\ last_call.text = <<"2","4","9","7","2">>
  /\ ~random_lt(5, last_call.g).v
  /\ SubSeq(last_return, 1, 3) = <<"2","4","9">>
  /\ last_return[4] # "7"

\* Position in street_types of the first listed type the address contains,
\* 0 if it contains none
FirstStreetType(address) ==
  IF \E i \in 1..Len(street_types) : str_in(street_types[i], address)
  THEN CHOOSE i \in 1..Len(street_types) :
         /\ str_in(street_types[i], address)
         /\ \A j \in 1..(i - 1) : ~str_in(street_types[j], address)
  ELSE 0

\* Position of the first occurrence of sub in s (sub occurs in s)
FirstOccurrence(sub, s) ==
  CHOOSE i \in 1..Len(s) :
    /\ OccursAt(sub, s, i)
    /\ \A j \in 1..(i - 1) : ~OccursAt(sub, s, j)

\* new stands in after where found stood first in before
StandsIn(new, found, before, after) ==
  /\ SubSeq(after, 1, FirstOccurrence(found, before) - 1)
       = SubSeq(before, 1, FirstOccurrence(found, before) - 1)
  /\ OccursAt(new, after, FirstOccurrence(found, before))

\* C13: when the street-type substitution runs on an address that contains a
\* listed street type, the type found first is replaced by a member of the
\* list other than itself, so the address changes.
C13_ReplacementDiffers ==
  (Called("change_street_type") /\ FirstStreetType(last_call.text) > 0) =>
    /\ last_return # last_call.text
    /\ \E j \in 1..Len(street_types) :
         /\ street_types[j] # street_types[FirstStreetType(last_call.text)]
         /\ StandsIn(street_types[j], street_types[FirstStreetType(last_call.text)],
                     last_call.text, last_return)

\* 123 Main St becomes 123 Main followed by another street type
C13_Witness ==
  /\ Called("change_street_type")
  /\ last_call.text = <<"1","2","3"," ","M","a","i","n"," ","S","t">>
  /\ SubSeq(last_return, 1, 9) = <<"1","2","3"," ","M","a","i","n"," ">>
  /\ SubSeq(last_return, 10, Len(last_return)) # <<"S","t">>
  /\ \E j \in 1..Len(street_types) :
       SubSeq(last_return, 10, Len(last_return)) = street_types[j]

\* The text contains a key of the abbreviation / of the typo mapping
HasAbbreviationKey(text) ==
  \E i \in 1..Len(abbreviations) : str_in(abbreviations[i].original, text)

HasTypoKey(text) ==
  \E i \in 1..Len(common_typos) : str_in(common_typos[i].original, text)

\* C14: a transform that finds nothing applicable returns its input unchanged:
\* apply_abbreviations on a text with no abbreviation key, apply_typos on a
\* text with no typo key, vary_address_number on an address with no leading
\* digit, the street-type substitution on an address with no listed type.
C14_NoOpWhenNothingApplies ==
  /\ (Called("apply_abbreviations") /\ ~HasAbbreviationKey(last_call.text))
       => last_return = last_call.text
  /\ (Called("apply_typos") /\ ~HasTypoKey(last_call.text))
       => last_return = last_call.text
  /\ (Called("vary_address_number") /\ LeadingDigits(last_call.text) = 0)
       => last_return = last_call.text
  /\ (Called("change_street_type") /\ FirstStreetType(last_call.text) = 0)
       => last_return = last_call.text

\* An aggressive apply_abbreviations call on a text without any key has drawn
\* from the stream and returned the text as it was.
C14_Witness ==
  /\ Called("apply_abbreviations")
  /\ last_call.aggressive
  /\ ~HasAbbreviationKey(last_call.text)
  /\ LeadingDigits(last_call.text) = 0
  /\ FirstStreetType(last_call.text) = 0
  /\ rng # last_call.g
  /\ last_return = last_call.text

\* 5+4 format: five digits, one hyphen, four digits
IsZipPlus4(postal_code) ==
  /\ Len(postal_code) = 10
  /\ str_isdigit(SubSeq(postal_code, 1, 5))
  /\ postal_code[6] = HYPHEN[1]
  /\ str_isdigit(SubSeq(postal_code, 7, 10))

\* C15: vary_postal_code returns its input unchanged for every postal code
\* that is neither in 5+4 format nor a bare 5-digit numeric string.
C15_OtherFormatsUnchanged ==
  (Called("vary_postal_code") /\ ~IsZipPlus4(last_call.text)
     /\ ~IsBareZip(last_call.text))
    => last_return = last_call.text

\* C16: for a postal code in 5+4 format vary_postal_code returns the 5-digit
\* prefix alone when random.random() < 0.3, and otherwise the same prefix, a
\* hyphen and a 4-digit suffix whose first three digits are the input's.
C16_ZipPlus4Drift ==
  (Called("vary_postal_code") /\ IsZipPlus4(last_call.text)) =>
    IF random_lt(3, last_call.g).v
    THEN last_return = SubSeq(last_call.text, 1, 5)
    ELSE /\ Len(last_return) = 10
         /\ SubSeq(last_return, 1, 9) = SubSeq(last_call.text, 1, 9)
         /\ IsDigitChar(last_return[10])

\* 89501-1234 keeps 89501-123 and gets another last digit
C16_Witness ==
  /\ Called("vary_postal_code")
  /\ last_call.text = <<"8","9","5","0","1","-","1","2","3","4">>
  /\ Len(last_return) = 10
  /\ SubSeq(last_return, 1, 9) = <<"8","9","5","0","1","-","1","2","3">>
  /\ last_return[10] # "4"

\* s with its first occurrence of old, and only that one, replaced by new
ReplaceFirst(s, old, new) ==
  SubSeq(s, 1, FirstOccurrence(old, s) - 1) \o new
    \o SubSeq(s, FirstOccurrence(old, s) + Len(old), Len(s))

\* C17: the street-type substitution replaces a single occurrence of the
\* first listed type present in the address by another listed type, and
\* changes nothing else; without a listed type the address stays as it is.
C17_SingleSubstitution ==
  Called("change_street_type") =>
    IF FirstStreetType(last_call.text) = 0
    THEN last_return = last_call.text
    ELSE \E j \in 1..Len(street_types) :
           /\ j # FirstStreetType(last_call.text)
           /\ last_return =
                ReplaceFirst(last_call.text,
                             street_types[FirstStreetType(last_call.text)],
                             street_types[j])

\* Positions in a mapping of the keys the text contains
PresentKeys(mapping, text) ==
  { i \in 1..Len(mapping) : str_in(mapping[i].original, text) }

\* The texts one can get from text by replacing, for each key of chosen in
\* some order, every occurrence of the key by one of its alternatives
RECURSIVE SubstituteAll(_, _, _)
SubstituteAll(mapping, text, chosen) ==
  IF chosen = { } THEN { text }
  ELSE UNION { UNION { SubstituteAll(mapping,
                                     str_replace(text, mapping[i].original,
                                                 mapping[i].alternatives[a]),
                                     chosen \ { i })
                       : a \in 1..Len(mapping[i].alternatives) }
               : i \in chosen }

\* C18: apply_abbreviations substitutes keys chosen among the mapping keys
\* present in the text, 1 to 2 of them for a low-aggressiveness call and 2 to
\* 4 for a high-aggressiveness call (at most as many as are present), each by
\* one of its alternatives at every occurrence.
C18_AbbreviatesPresentKeys ==
  Called("apply_abbreviations") =>
    \E n \in (IF last_call.aggressive THEN 2..4 ELSE 1..2) :
      \E chosen \in SUBSET PresentKeys(abbreviations, last_call.text) :
        /\ Cardinality(chosen)
             = Min(n, Cardinality(PresentKeys(abbreviations, last_call.text)))
        /\ last_return \in SubstituteAll(abbreviations, last_call.text, chosen)

\* C19: apply_typos(text, N) replaces exactly min(N, p) distinct keys of the
\* typo mapping, p being the number of keys present in the text, each by one
\* of its misspellings; the other keys present stay, and for N <= 0 the text
\* is returned unchanged.
C19_TyposAmongPresentKeys ==
  Called("apply_typos") =>
    IF last_call.num_typos <= 0
    THEN last_return = last_call.text
    ELSE \E chosen \in SUBSET PresentKeys(common_typos, last_call.text) :
           /\ Cardinality(chosen)
                = Min(last_call.num_typos,
                      Cardinality(PresentKeys(common_typos, last_call.text)))
           /\ last_return \in SubstituteAll(common_typos, last_call.text, chosen)
           /\ PresentKeys(common_typos, last_return)
                = PresentKeys(common_typos, last_call.text) \ chosen

\* One typo asked for in a text with two keys: one key is misspelt and the
\* other is still there.
C19_Witness ==
  /\ Called("apply_typos")
  /\ last_call.num_typos = 1
  /\ Cardinality(PresentKeys(common_typos, last_call.text)) = 2
  /\ Cardinality(PresentKeys(common_typos, last_return)) = 1
  /\ last_return # last_call.text

----------------------------------------------------------------------------
(* Properties of the very close band *)

\* The columns create_very_close_match copies
VeryCloseCopied == { "ADDRESS_LINE_2", "CITY", "STATE", "POSTAL_CODE", "COUNTRY" }

\* after differs from before at most by letter case and by the removal of
\* its apostrophes
SameButCaseAndApostrophes(before, after) ==
  \/ str_lower(after) = str_lower(before)
  \/ str_lower(after) = str_replace(str_lower(before), APOSTROPHE, << >>)

\* after is before with some of the abbreviation keys it contains replaced
\* by alternatives
SameButAbbreviations(before, after) ==
  \E chosen \in SUBSET PresentKeys(abbreviations, before) :
    after \in SubstituteAll(abbreviations, before, chosen)

\* C20: a record built by create_very_close_match has address line 2, city,
\* state, postal code and country equal to its source's, a name that differs
\* from the source's at most by letter case and removed apostrophes, and an
\* address line 1 that differs at most by abbreviation substitutions.
C20_VeryCloseFrame ==
  \A k \in 1..Len(output_data) :
    reads[k].fn = "create_very_close_match" =>
      /\ \A c \in VeryCloseCopied : output_data[k][c] = SourceOf(k)[c]
      /\ SameButCaseAndApostrophes(SourceOf(k)["NAME"], output_data[k]["NAME"])
      /\ SameButAbbreviations(SourceOf(k)["ADDRESS_LINE_1"],
                              output_data[k]["ADDRESS_LINE_1"])

\* A very close record whose name and address line 1 both differ from its
\* source's
C20_Witness ==
  \E k \in 1..Len(output_data) :
    /\ reads[k].fn = "create_very_close_match"
    /\ output_data[k]["NAME"] # SourceOf(k)["NAME"]
    /\ output_data[k]["ADDRESS_LINE_1"] # SourceOf(k)["ADDRESS_LINE_1"]
    /\ \A c \in VeryCloseCopied : output_data[k][c] = SourceOf(k)[c]

----------------------------------------------------------------------------
(* Properties of the somewhat close and not close bands *)

\* derived is what the steps of create_not_close_match give on record, each
\* step working on the text and the stream state the step before it left:
\* the name abbreviated, then given 1 or 2 typos; the address abbreviated,
\* then its number varied; the postal code varied; then, when
\* random.random() < 0.3, the street type of that address changed.
NotCloseInOrder(record, g, derived) ==
  \E abbreviated \in { apply_abbreviations(record["NAME"], TRUE, g) } :
  \E count \in { random_randint(1, 2, abbreviated.g) } :
  \E name \in { apply_typos(abbreviated.v, count.v, count.g) } :
  \E shortened \in { apply_abbreviations(record["ADDRESS_LINE_1"], TRUE, name.g) } :
  \E address \in { vary_address_number(shortened.v, shortened.g) } :
  \E postal_code \in { vary_postal_code(record["POSTAL_CODE"], address.g) } :
  \E street \in { random_lt(3, postal_code.g) } :
    /\ derived["NAME"] = name.v
    /\ derived["POSTAL_CODE"] = postal_code.v
    /\ derived["ADDRESS_LINE_1"]
         = IF street.v THEN change_street_type(address.v, street.g).v
                       ELSE address.v

\* The same for create_somewhat_close_match: name and address abbreviated;
\* then, each when its own random.random() test hits, one typo in the
\* abbreviated name, the number of the abbreviated address varied, the postal
\* code varied.
SomewhatCloseInOrder(record, g, derived) ==
  \E abbreviated \in { apply_abbreviations(record["NAME"], TRUE, g) } :
  \E shortened \in { apply_abbreviations(record["ADDRESS_LINE_1"], TRUE,
                                         abbreviated.g) } :
  \E typo \in { random_lt(4, shortened.g) } :
  \E name \in { IF typo.v THEN apply_typos(abbreviated.v, 1, typo.g)
                          ELSE [v |-> abbreviated.v, g |-> typo.g] } :
  \E drift \in { random_lt(3, name.g) } :
  \E address \in { IF drift.v THEN vary_address_number(shortened.v, drift.g)
                              ELSE [v |-> shortened.v, g |-> drift.g] } :
  \E postal \in { random_lt(3, address.g) } :
    /\ derived["NAME"] = name.v
    /\ derived["ADDRESS_LINE_1"] = address.v
    /\ derived["POSTAL_CODE"]
         = IF postal.v THEN vary_postal_code(record["POSTAL_CODE"], postal.g).v
                       ELSE record["POSTAL_CODE"]

\* C21: in create_not_close_match and in create_somewhat_close_match the
\* steps are applied in the stated order, each on the output of the one
\* before: typos go into the abbreviated name, the number drift works on the
\* abbreviated address, the street-type substitution on the drifted address,
\* and in the not close band number drift and postal drift are always applied.
C21_StepsInOrder ==
  /\ Called("create_not_close_match")
       => NotCloseInOrder(last_call.text, last_call.g, last_return)
  /\ Called("create_somewhat_close_match")
       => SomewhatCloseInOrder(last_call.text, last_call.g, last_return)

\* A not close record whose name was abbreviated and then misspelt, and whose
\* address was abbreviated and then got another number: each first step
\* changed the source text and each second step changed the result of the
\* first.
C21_Witness ==
  /\ Called("create_not_close_match")
  /\ \E abbreviated \in { apply_abbreviations(last_call.text["NAME"], TRUE,
                                               last_call.g).v } :
       /\ abbreviated # last_call.text["NAME"]
       /\ last_return["NAME"] # abbreviated
       /\ HasTypoKey(abbreviated)
       /\ ~HasAbbreviationKey(last_return["NAME"])
  /\ Remainder(last_return["ADDRESS_LINE_1"])
       # Remainder(last_call.text["ADDRESS_LINE_1"])
  /\ LeadingNumber(last_return["ADDRESS_LINE_1"])
       # LeadingNumber(last_call.text["ADDRESS_LINE_1"])

----------------------------------------------------------------------------
(* Properties of every band *)

\* The canonical record with another source system
WithSourceSystem(record, system) == [record EXCEPT !["SOURCE_SYSTEM"] = system]

\* C22: every derived record of every band has a source system that is one
\* of the 7 values of SOURCE_SYSTEMS, and the source system of the canonical
\* record is not read: with any other source system in the canonical record
\* the derived record is the same.
C22_SourceSystemReassigned ==
  (last_call.fn \in CreateFunctions) =>
    /\ Len(SOURCE_SYSTEMS) = 7
    /\ \E i \in 1..7 : last_return["SOURCE_SYSTEM"] = SOURCE_SYSTEMS[i]
    /\ \A system \in { "legacy", "sap_hmh", "crm_edtech" } :
         DerivedBy(last_call.fn, WithSourceSystem(last_call.text, system),
                   last_call.g, last_return)

\* A record of a source system outside the list gives a not close record of
\* a source system of the list.
C22_Witness ==
  /\ Called("create_not_close_match")
  /\ \A i \in 1..7 : last_call.text["SOURCE_SYSTEM"] # SOURCE_SYSTEMS[i]
  /\ \E i \in 1..7 : last_return["SOURCE_SYSTEM"] = SOURCE_SYSTEMS[i]

----------------------------------------------------------------------------
(* Properties of the dashboard *)

\* The rows CUSTOMER_MATCH_RESULTS holds for a test record
RowsOf(test_id) == { row \in CUSTOMER_MATCH_RESULTS : row.TEST_ID = test_id }

\* C23: after any sequence of compute_similarities, create_test_record,
\* update_test_record and recalculate_similarities_for_record calls,
\* CUSTOMER_MATCH_RESULTS holds at most one row per test record.
C23_OneRowPerTestRecord ==
  \A test_id \in DOMAIN TEST_MATCHES : Cardinality(RowsOf(test_id)) <= 1

\* C24: after a slider is moved and the page has rerun, every row
\* compute_similarities returned carries the category its score gets under
\* the current thresholds.
C24_CategoriesFollowThresholds ==
  (last_event = "slider") =>
    \A row \in similarities :
      row.MATCH_CATEGORY = match_category(row.SIMILARITY_SCORE, thresholds)

\* C25: after any sequence of create_test_record and update_test_record
\* calls, the stored embedding of every test record is the embedding of its
\* current CUSTOMER_FULL_DETAIL.
C25_EmbeddingOfCurrentText ==
  \A test_id \in DOMAIN TEST_MATCHES :
    TEST_MATCHES[test_id].CUSTOMER_FULL_DETAIL_EMBEDDING
      = EMBED_TEXT_768(TEST_MATCHES[test_id].CUSTOMER_FULL_DETAIL)

\* C26: in every session state the thresholds satisfy
\* exact >= very_close >= somewhat_close.
C26_ThresholdsOrdered ==
  /\ thresholds.exact >= thresholds.very_close
  /\ thresholds.very_close >= thresholds.somewhat_close

====
